---- MODULE Spec2Model ----
(***************************************************************************)
(* Model of the Strands + AgentCore memory application: the invoke         *)
(* endpoint with its two hydration strategies (app/main.py,                *)
(* app/agents/hooks.py, app/agents/personal_assistant_agent.py), the       *)
(* identity helpers (app/memory/session.py) and the provisioning of the    *)
(* memory resource (app/memory/client.py).                                 *)
(*                                                                         *)
(* Python strings are TLA+ strings (concatenation \o, Len, SubSeq), so     *)
(* that formatting, joining and stripping are computed, not assumed.       *)
(* Python None is the sentinel NONE; None and "" are both falsy.           *)
(***************************************************************************)
EXTENDS Integers, Sequences, FiniteSets, TLC

VARIABLES
    mode,           \* "single": one request at a time; "conc": two requests in flight
    app_memory_id,  \* app.state.memory_id, set by lifespan
    pc,             \* pc[r]: position of request r inside invoke
    req,            \* req[r]: the InvokeRequest of request r
    ids,            \* ids[r]: actor_id, session_id, namespace resolved by invoke
    hits,           \* hits[r]: what retrieve_memories returned to request r
    long_term_context, \* long_term_context[r]: local of invoke
    system_prompt,  \* system_prompt[r]: the agent's instructions
    result,         \* result[r]: the agent's result object
    meta,           \* meta[r]: what run_personal_assistant returned to invoke
    errors,         \* errors[r]: keys of invoke's errors dict
    resp,           \* resp[r]: the InvokeResponse returned
    calls,          \* every request received, call made and response returned, in order
    override_id,    \* config.BEDROCK_MEMORY_ID, NONE when not configured
    resources,      \* the backend's memory resources, in listing order
    unlisted,       \* a resource of the target name exists that list does not return
    ppc,            \* ppc[c]: position of caller c inside ensure_memory
    plocal,         \* plocal[c]: the locals of caller c
    pres,           \* pres[c]: what ensure_memory returned or raised to caller c
    ncalls,         \* ncalls[c]: control-plane calls issued by caller c
    began_after,    \* began_after[c]: callers that had finished when c began
    search,         \* search[q]: the /memories/search request q and its handling
    nsq             \* two (actor_id, session_id) pairs and their namespaces

servVars == <<mode, app_memory_id, pc, req, ids, hits, long_term_context,
              system_prompt, result, meta, errors, resp, calls>>

provVars == <<override_id, resources, unlisted, ppc, plocal, pres, ncalls, began_after>>

auxVars == <<search, nsq>>

vars == <<servVars, provVars, auxVars>>

-----------------------------------------------------------------------------
(* Bounds of the model *)

MaxRecs == 3

Reqs == {1, 2}

NONE == "<None>"

Truthy(s) == s # NONE /\ s # ""

Users == {"u1"}

Prompt(r) == IF r = 1 THEN "p1" ELSE "p2"

SessionInputs == {NONE, "s1"}

GeneratedTokens == {"0a1b2c3d", "4e5f6a7b"}

TopKs == {-1, 0, 2, 5}

-----------------------------------------------------------------------------
(* app/memory/session.py *)

actor_id_for_user(user_id) == user_id

session_id_or_default_raw(session_id, token) == session_id

session_id_or_default(session_id, token) ==
    IF Truthy(session_id) THEN session_id ELSE "session-" \o token

profile_session_id(actor_id) == "profile-" \o actor_id

summary_namespace(actor_id, session_id) ==
    "/summaries/" \o actor_id \o "/" \o session_id

-----------------------------------------------------------------------------
(* Python string and list helpers *)

Whitespace == {" ", "\n", "\t"}

RECURSIVE RStrip(_)
RStrip(s) ==
    IF Len(s) > 0 /\ SubSeq(s, Len(s), Len(s)) \in Whitespace
    THEN RStrip(SubSeq(s, 1, Len(s) - 1))
    ELSE s

RECURSIVE LStrip(_)
LStrip(s) ==
    IF Len(s) > 0 /\ SubSeq(s, 1, 1) \in Whitespace
    THEN LStrip(SubSeq(s, 2, Len(s)))
    ELSE s

\* str.strip()
Strip(s) == LStrip(RStrip(s))

\* "\n".join(lines)
RECURSIVE JoinLines(_)
JoinLines(lines) ==
    IF lines = <<>> THEN ""
    ELSE IF Len(lines) = 1 THEN lines[1]
    ELSE lines[1] \o "\n" \o JoinLines(Tail(lines))

\* seq[:k] with Python's meaning of a negative k
SliceTo(seq, k) ==
    IF k >= 0 THEN SubSeq(seq, 1, IF k < Len(seq) THEN k ELSE Len(seq))
    ELSE SubSeq(seq, 1, IF Len(seq) + k > 0 THEN Len(seq) + k ELSE 0)

-----------------------------------------------------------------------------
(* Retrieval results: the shapes retrieve_memories may return *)

\* a mapping record; NONE marks a key the record does not have
MapRec(t, c, v, s) ==
    [kind |-> "map", text |-> t, content |-> c, value |-> v, summary |-> s]

\* a bare item (a str): it has neither .get nor .text
BareRec(s) ==
    [kind |-> "str", text |-> s, content |-> NONE, value |-> NONE, summary |-> NONE]

Recs ==
    { MapRec("alpha", NONE, NONE, NONE),
      MapRec(NONE, "beta", NONE, NONE),
      MapRec(NONE, NONE, NONE, "gamma "),
      MapRec(NONE, NONE, "val", NONE),
      MapRec("", "cc", NONE, "ss"),
      MapRec(NONE, NONE, NONE, NONE),
      BareRec("bare") }

RecSeqs == UNION { [1..n -> Recs] : n \in 0..MaxRecs }

\* shape "null": None; "map": a dict whose records/items key holds a list
\* (an absent key and an empty list are both falsy); "list": a bare list
NullHits == [shape |-> "null", records |-> <<>>, items |-> <<>>, elems |-> <<>>]

HitsSet ==
    {NullHits}
    \cup { [shape |-> "map", records |-> s, items |-> <<>>, elems |-> <<>>] : s \in RecSeqs }
    \cup { [shape |-> "map", records |-> <<>>, items |-> s, elems |-> <<>>] : s \in RecSeqs \ {<<>>} }
    \cup { [shape |-> "list", records |-> <<>>, items |-> <<>>, elems |-> s] : s \in RecSeqs }

SmallHits ==
    { [shape |-> "map", records |-> <<MapRec("alpha", NONE, NONE, NONE)>>,
       items |-> <<>>, elems |-> <<>>] }

HitsPool == IF mode = "single" THEN HitsSet ELSE SmallHits

-----------------------------------------------------------------------------
(* app/main.py: _extract_text_snippets *)

RecKeys == <<"text", "content", "value", "summary">>

RECURSIVE JoinComma(_)
JoinComma(parts) ==
    IF parts = <<>> THEN ""
    ELSE IF Len(parts) = 1 THEN parts[1]
    ELSE parts[1] \o ", " \o JoinComma(Tail(parts))

\* str(r) of a mapping record
DictRepr(r) ==
    LET present == SelectSeq(RecKeys, LAMBDA k : r[k] # NONE)
    IN  "{" \o JoinComma([i \in 1..Len(present) |->
                "'" \o present[i] \o "': '" \o r[present[i]] \o "'"]) \o "}"

\* main.py:71-77: the records of a result; a non-empty bare list makes
\* (hits or {}).get raise, and the except clause takes the list itself
ManualRecords(h) ==
    IF h.shape = "null" THEN <<>>
    ELSE IF h.shape = "map"
         THEN (IF h.records # <<>> THEN h.records ELSE h.items)
         ELSE h.elems

\* main.py:80-86
ManualText(r) ==
    IF Truthy(r.text) THEN r.text
    ELSE IF Truthy(r.content) THEN r.content
    ELSE IF Truthy(r.value) THEN r.value
    ELSE IF Truthy(r.summary) THEN r.summary
    ELSE DictRepr(r)

extract_text_snippets_short(h, max_snippets) ==
    LET recs == SliceTo(ManualRecords(h), max_snippets - 1)
    IN  IF \E i \in 1..Len(recs) : recs[i].kind # "map"
        THEN [raised |-> TRUE, val |-> ""]
        ELSE [raised |-> FALSE,
              val |-> JoinLines([i \in 1..Len(recs) |-> "- " \o ManualText(recs[i])])]

\* main.py:64-88; raised: r.get on a record that is no mapping
extract_text_snippets(h, max_snippets) ==
    LET recs == SliceTo(ManualRecords(h), max_snippets)
    IN  IF \E i \in 1..Len(recs) : recs[i].kind # "map"
        THEN [raised |-> TRUE, val |-> ""]
        ELSE [raised |-> FALSE,
              val |-> JoinLines([i \in 1..Len(recs) |-> "- " \o ManualText(recs[i])])]

-----------------------------------------------------------------------------
(* app/agents/hooks.py: LongTermMemoryHook.before_invocation, lines 32-51 *)

LT_HEADER == "\n\n# Long-term user context (read-only)\n"

\* hooks.py:40-45; getattr(r, "text", None) is None for a dict
HookText(r) ==
    IF Truthy(r.text) THEN r.text
    ELSE IF Truthy(r.summary) THEN r.summary
    ELSE IF Truthy(r.content) THEN r.content
    ELSE NONE

\* hooks.py:34-38; a non-empty bare list makes (hits or {}).get raise
HookRecords(h) ==
    IF h.shape = "null" THEN <<>>
    ELSE IF h.shape = "map"
         THEN (IF h.records # <<>> THEN h.records ELSE h.items)
         ELSE <<>>

HookAugmentHeaderAlways(h, top_k) == [raised |-> FALSE, val |-> LT_HEADER]

\* what before_invocation appends to agent.system_prompt for a result;
\* raised: an exception inside the try block (swallowed at hooks.py:52)
HookAugment(h, top_k) ==
    LET recs == HookRecords(h)
        texts == [i \in 1..Len(recs) |-> HookText(recs[i])]
        kept == SelectSeq(texts, Truthy)
        snippets == [i \in 1..Len(kept) |-> "- " \o kept[i]]
    IN  IF (h.shape = "list" /\ h.elems # <<>>)
           \/ (\E i \in 1..Len(recs) : recs[i].kind # "map")
        THEN [raised |-> TRUE, val |-> ""]
        ELSE IF snippets # <<>>
        THEN [raised |-> FALSE, val |-> LT_HEADER \o JoinLines(SliceTo(snippets, top_k))]
        ELSE [raised |-> FALSE, val |-> ""]

-----------------------------------------------------------------------------
(* State of the serving application *)

NoReq == [user_id |-> NONE, prompt |-> NONE, session_id |-> NONE,
          use_long_term |-> FALSE, use_hooks |-> FALSE, long_term_top_k |-> 0]

NoIds == [actor_id |-> NONE, session_id |-> NONE, namespace |-> NONE]

NoResult == [text |-> NONE, str |-> NONE]

NoMeta == [result_text |-> NONE, hooks_enabled |-> FALSE, manual_lt_injected |-> FALSE]

NoResp == [status |-> 0, session_id |-> NONE, result_text |-> NONE,
           hooks_enabled |-> FALSE, manual_lt_injected |-> FALSE, errors |-> {}]

\* what the agent may return: getattr(result, "text", None) may be missing
AgentResults ==
    { [text |-> NONE, str |-> "hello"],
      [text |-> "hi there", str |-> "AgentResult(hi there)"] }

InputResults == IF mode = "single" THEN AgentResults ELSE {[text |-> NONE, str |-> "hello"]}

\* personal_assistant_agent.py:124
result_text(res) == IF Truthy(res.text) THEN res.text ELSE res.str

BASE_SYSTEM_PROMPT == "You are a helpful personal assistant."

Active == IF mode = "conc" THEN Reqs ELSE {1}

\* session_id is an unconstrained optional string (main.py:30)
AnySessionInputs == SessionInputs \cup {"profile-u1"}

InputSessions ==
    IF mode = "single" THEN SessionInputs
    ELSE IF mode = "sessions" THEN AnySessionInputs
    ELSE {"s1"}

InputTopKs == IF mode = "single" THEN TopKs ELSE {5}

InputLongTerm == IF mode = "single" THEN BOOLEAN ELSE {TRUE}

Entry(op, r, site, target, user, asst, ok) ==
    [op |-> op, rid |-> r, site |-> site, mem |-> app_memory_id, actor |-> ids[r].actor_id,
     target |-> target, user |-> user, asst |-> asst, ok |-> ok]

InitServing(m) ==
    /\ mode = m
    /\ app_memory_id = (IF m \in {"prov", "startup"} THEN NONE ELSE "mem-1")
    /\ pc = [r \in Reqs |-> "idle"]
    /\ req = [r \in Reqs |-> NoReq]
    /\ ids = [r \in Reqs |-> NoIds]
    /\ hits = [r \in Reqs |-> NullHits]
    /\ long_term_context = [r \in Reqs |-> ""]
    /\ system_prompt = [r \in Reqs |-> ""]
    /\ result = [r \in Reqs |-> NoResult]
    /\ meta = [r \in Reqs |-> NoMeta]
    /\ errors = [r \in Reqs |-> {}]
    /\ resp = [r \in Reqs |-> NoResp]
    /\ calls = <<>>

-----------------------------------------------------------------------------
(* app/main.py: invoke *)

\* main.py:91-98: the request arrives, the identifiers are resolved; requests
\* are numbered in their order of arrival
ReceiveInvoke(r) ==
    /\ pc[r] = "idle"
    /\ \A q \in Reqs : q < r => pc[q] # "idle"
    /\ Truthy(app_memory_id)
    /\ \E u \in Users, sid \in InputSessions, tok \in GeneratedTokens,
          ul \in InputLongTerm, uh \in BOOLEAN, k \in InputTopKs :
         LET actor == actor_id_for_user(u)
             session == session_id_or_default(sid, tok)
         IN  /\ req' = [req EXCEPT ![r] =
                    [user_id |-> u, prompt |-> Prompt(r), session_id |-> sid,
                     use_long_term |-> ul, use_hooks |-> uh, long_term_top_k |-> k]]
             /\ ids' = [ids EXCEPT ![r] =
                    [actor_id |-> actor, session_id |-> session,
                     namespace |-> summary_namespace(actor, session)]]
             /\ calls' = Append(calls,
                    [op |-> "receive", rid |-> r, site |-> "invoke",
                     mem |-> app_memory_id, actor |-> actor,
                     target |-> session, user |-> "", asst |-> "", ok |-> TRUE])
    /\ pc' = [pc EXCEPT ![r] = "hydrate"]
    /\ UNCHANGED <<mode, app_memory_id, hits, long_term_context, system_prompt,
                   result, errors, resp, meta>>

ManualPathIgnoringHooks(rq) == rq.use_long_term

\* main.py:101: the condition of the manual hydration path
ManualPath(rq) == rq.use_long_term /\ ~rq.use_hooks

\* main.py:100-114: the manual hydration path
ManualHydrate(r) ==
    /\ pc[r] = "hydrate"
    /\ ManualPath(req[r])
    /\ LET lt_ns == summary_namespace(ids[r].actor_id, profile_session_id(ids[r].actor_id))
       IN  \/ \* retrieve_memories raises: caught at main.py:113
              /\ calls' = Append(calls, Entry("retrieve_memories", r, "invoke", lt_ns, "", "", FALSE))
              /\ long_term_context' = [long_term_context EXCEPT ![r] = ""]
              /\ UNCHANGED hits
           \/ \E h \in HitsPool :
              LET got == extract_text_snippets(h, req[r].long_term_top_k)
              IN  /\ calls' = Append(calls, Entry("retrieve_memories", r, "invoke", lt_ns, "", "", TRUE))
                  /\ hits' = [hits EXCEPT ![r] = h]
                  /\ long_term_context' = [long_term_context EXCEPT ![r] =
                         IF got.raised THEN "" ELSE got.val]
    /\ pc' = [pc EXCEPT ![r] = "run"]
    /\ UNCHANGED <<mode, app_memory_id, req, ids, system_prompt, result, errors, resp, meta>>

\* main.py:101: the condition is false, no manual hydration
SkipHydrate(r) ==
    /\ pc[r] = "hydrate"
    /\ ~ManualPath(req[r])
    /\ pc' = [pc EXCEPT ![r] = "run"]
    /\ UNCHANGED <<mode, app_memory_id, req, ids, hits, long_term_context,
                   system_prompt, result, errors, resp, calls, meta>>

-----------------------------------------------------------------------------
(* app/agents/personal_assistant_agent.py: run_personal_assistant *)

BuildSystemPromptAlways(ctx, use_hooks) ==
    BASE_SYSTEM_PROMPT \o LT_HEADER \o Strip(ctx)

\* personal_assistant_agent.py:90-93
BuildSystemPrompt(ctx, use_hooks) ==
    IF Truthy(ctx) /\ ~use_hooks
    THEN BASE_SYSTEM_PROMPT \o LT_HEADER \o Strip(ctx)
    ELSE BASE_SYSTEM_PROMPT

\* personal_assistant_agent.py:116-117: the hook is registered iff use_hooks
HookRegistered(use_hooks) == use_hooks

\* personal_assistant_agent.py:78-121: the agent is built
BuildAgent(r) ==
    /\ pc[r] = "run"
    /\ system_prompt' = [system_prompt EXCEPT ![r] =
           BuildSystemPrompt(long_term_context[r], req[r].use_hooks)]
    /\ pc' = [pc EXCEPT ![r] =
           IF HookRegistered(req[r].use_hooks) THEN "before_hook" ELSE "model"]
    /\ UNCHANGED <<mode, app_memory_id, req, ids, hits, long_term_context,
                   result, errors, resp, calls, meta>>

\* hooks.py:21-54: LongTermMemoryHook.before_invocation
HookBefore(r) ==
    /\ pc[r] = "before_hook"
    /\ LET ns == summary_namespace(ids[r].actor_id, profile_session_id(ids[r].actor_id))
       IN  \/ \* retrieve_memories raises: swallowed at hooks.py:52
              /\ calls' = Append(calls, Entry("retrieve_memories", r, "hook", ns, "", "", FALSE))
              /\ UNCHANGED <<hits, system_prompt, meta>>
           \/ \E h \in HitsPool :
              LET got == HookAugment(h, req[r].long_term_top_k)
              IN  /\ calls' = Append(calls, Entry("retrieve_memories", r, "hook", ns, "", "", TRUE))
                  /\ hits' = [hits EXCEPT ![r] = h]
                  /\ system_prompt' = [system_prompt EXCEPT ![r] =
                         IF got.raised THEN @ ELSE @ \o got.val]
    /\ pc' = [pc EXCEPT ![r] = "model"]
    /\ UNCHANGED <<mode, app_memory_id, req, ids, long_term_context, result, errors, resp, meta>>

\* personal_assistant_agent.py:122: the model runs under system_prompt[r] and
\* produces a result; the instructions and the retrieval result are not read
\* again after this point
AgentReturns(r) ==
    /\ pc[r] = "model"
    /\ \E res \in InputResults :
         result' = [result EXCEPT ![r] = res]
    /\ calls' = Append(calls, Entry("agent", r, "agent", "", req[r].prompt, "", TRUE))
    /\ system_prompt' = [system_prompt EXCEPT ![r] = ""]
    /\ hits' = [hits EXCEPT ![r] = NullHits]
    /\ pc' = [pc EXCEPT ![r] =
           IF HookRegistered(req[r].use_hooks) THEN "after_hook" ELSE "return"]
    /\ UNCHANGED <<mode, app_memory_id, req, ids, long_term_context,
                   errors, resp, meta>>

\* personal_assistant_agent.py:122: agent(prompt) raises; invoke does not
\* catch it, the request fails
AgentRaises(r) ==
    /\ pc[r] = "model"
    /\ calls' = Append(calls, Entry("agent", r, "agent", "", req[r].prompt, "", FALSE))
    /\ resp' = [resp EXCEPT ![r] = [NoResp EXCEPT !.status = 500]]
    /\ pc' = [pc EXCEPT ![r] = "failed"]
    /\ UNCHANGED <<mode, app_memory_id, req, ids, hits, long_term_context,
                   system_prompt, result, errors, meta>>

\* hooks.py:68: getattr(request, "input", ""): the attribute may be missing
RequestInputs(r) == IF mode = "single" THEN {req[r].prompt, ""} ELSE {req[r].prompt}

\* hooks.py:56-73: LongTermMemoryHook.after_invocation; the USER text is
\* str(getattr(request, "input", "")), the ASSISTANT text str(response);
\* any failure is swallowed at hooks.py:72
HookAfter(r) ==
    /\ pc[r] = "after_hook"
    /\ \E input \in RequestInputs(r), ok \in BOOLEAN :
         calls' = Append(calls,
             Entry("create_event", r, "hook_after", profile_session_id(ids[r].actor_id),
                   input, result[r].str, ok))
    /\ pc' = [pc EXCEPT ![r] = "return"]
    /\ UNCHANGED <<mode, app_memory_id, req, ids, hits, long_term_context,
                   system_prompt, result, errors, resp, meta>>

InvokeOrderRespondFirst(p) ==
    CASE p = "return" -> "respond"
      [] p = "respond" -> "st_write"
      [] p = "st_write" -> "lt_write"
      [] p = "lt_write" -> "done"

\* main.py:119-162: the order of invoke's steps once the agent has returned:
\* the session write, the profile write, then the response
InvokeOrder(p) ==
    CASE p = "return" -> "st_write"
      [] p = "st_write" -> "lt_write"
      [] p = "lt_write" -> "respond"
      [] p = "respond" -> "done"

\* personal_assistant_agent.py:124-130: run_personal_assistant returns the
\* result text and the meta; its locals and the context string of invoke
\* are not read again
ReturnFromAssistant(r) ==
    /\ pc[r] = "return"
    /\ meta' = [meta EXCEPT ![r] =
           [result_text |-> result_text(result[r]),
            hooks_enabled |-> req[r].use_hooks,
            manual_lt_injected |-> Truthy(long_term_context[r]) /\ ~req[r].use_hooks]]
    /\ result' = [result EXCEPT ![r] = NoResult]
    /\ long_term_context' = [long_term_context EXCEPT ![r] = ""]
    /\ pc' = [pc EXCEPT ![r] = InvokeOrder("return")]
    /\ UNCHANGED <<mode, app_memory_id, req, ids, hits, system_prompt, errors, resp, calls>>

-----------------------------------------------------------------------------
(* app/main.py: invoke, the write-backs and the response *)

ErrorsAfterReset(errs, key, ok) == IF ok THEN {} ELSE {key}

\* main.py:140-141 and 153-154: a failed write is recorded under its key
ErrorsAfter(errs, key, ok) == IF ok THEN errs ELSE errs \cup {key}

MirrorsAlways(use_hooks) == TRUE

MirrorsNever(use_hooks) == FALSE

\* main.py:144: invoke mirrors the turn to the profile stream iff hooks are off
MirrorsToProfile(use_hooks) == ~use_hooks

\* main.py:130-141
ShortTermWrite(r) ==
    /\ pc[r] = "st_write"
    /\ \E ok \in BOOLEAN :
         /\ calls' = Append(calls,
                Entry("create_event", r, "short_term", ids[r].session_id,
                      req[r].prompt, meta[r].result_text, ok))
         /\ errors' = [errors EXCEPT ![r] = ErrorsAfter(@, "short_term_write_error", ok)]
    /\ pc' = [pc EXCEPT ![r] = InvokeOrder("st_write")]
    /\ UNCHANGED <<mode, app_memory_id, req, ids, hits, long_term_context,
                   system_prompt, result, resp, meta>>

\* main.py:143-154
LongTermWrite(r) ==
    /\ pc[r] = "lt_write"
    /\ MirrorsToProfile(req[r].use_hooks)
    /\ \E ok \in BOOLEAN :
         /\ calls' = Append(calls,
                Entry("create_event", r, "long_term", profile_session_id(ids[r].actor_id),
                      req[r].prompt, meta[r].result_text, ok))
         /\ errors' = [errors EXCEPT ![r] = ErrorsAfter(@, "long_term_write_error", ok)]
    /\ pc' = [pc EXCEPT ![r] = InvokeOrder("lt_write")]
    /\ UNCHANGED <<mode, app_memory_id, req, ids, hits, long_term_context,
                   system_prompt, result, resp, meta>>

\* main.py:144: use_hooks is true, invoke makes no profile write
SkipLongTermWrite(r) ==
    /\ pc[r] = "lt_write"
    /\ ~MirrorsToProfile(req[r].use_hooks)
    /\ pc' = [pc EXCEPT ![r] = InvokeOrder("lt_write")]
    /\ UNCHANGED <<mode, app_memory_id, req, ids, hits, long_term_context,
                   system_prompt, result, errors, resp, calls, meta>>

\* main.py:156-162 with the meta of personal_assistant_agent.py:125-130
Respond(r) ==
    /\ pc[r] = "respond"
    /\ resp' = [resp EXCEPT ![r] =
           [status |-> 200, session_id |-> ids[r].session_id,
            result_text |-> meta[r].result_text,
            hooks_enabled |-> meta[r].hooks_enabled,
            manual_lt_injected |-> meta[r].manual_lt_injected,
            errors |-> errors[r]]]
    /\ calls' = Append(calls, Entry("respond", r, "invoke", ids[r].session_id, "", "", TRUE))
    /\ pc' = [pc EXCEPT ![r] = InvokeOrder("respond")]
    /\ UNCHANGED <<mode, app_memory_id, req, ids, hits, long_term_context,
                   system_prompt, result, errors, meta>>

-----------------------------------------------------------------------------
(* app/main.py: memories_search *)

SearchReqs == {1, 2}

SearchUsers == {"u1", "u2"}

\* main.py:45: the pattern of the scope field admits these two values
Scopes == {"profile", "session"}

SearchSessions == {NONE, "", "s1"}

SearchHits == {NullHits} \cup SmallHits

NoSearchReq == [user_id |-> NONE, query |-> NONE, scope |-> NONE, session_id |-> NONE]

NoSearchResp ==
    [status |-> 0, detail |-> NONE, actor_id |-> NONE, namespace |-> NONE, hits |-> NullHits]

NoSearch == [pc |-> "idle", req |-> NoSearchReq, ns |-> NONE, resp |-> NoSearchResp,
             calls |-> <<>>]

SearchIdle == search = [q \in SearchReqs |-> NoSearch]

SessionRequiredNever(rq) == FALSE

\* main.py:172-177: the request is refused for want of a session id
SessionRequired(rq) == rq.scope # "profile" /\ ~Truthy(rq.session_id)

\* main.py:171-178: the namespace that is searched
SearchNamespace(rq) ==
    LET actor_id == actor_id_for_user(rq.user_id)
    IN  IF rq.scope = "profile"
        THEN summary_namespace(actor_id, profile_session_id(actor_id))
        ELSE summary_namespace(actor_id, rq.session_id)

\* main.py:166-178: the request is received and checked
SearchReceive(q) ==
    /\ search[q].pc = "idle"
    /\ \E u \in SearchUsers, sc \in Scopes, sid \in SearchSessions :
         LET rq == [user_id |-> u, query |-> "likes", scope |-> sc, session_id |-> sid]
         IN  search' = [search EXCEPT ![q] =
                 IF ~Truthy(app_memory_id)
                 THEN [@ EXCEPT !.pc = "done", !.req = rq,
                         !.resp = [NoSearchResp EXCEPT !.status = 500,
                                     !.detail = "Memory not initialized"]]
                 ELSE IF SessionRequired(rq)
                 THEN [@ EXCEPT !.pc = "done", !.req = rq,
                         !.resp = [NoSearchResp EXCEPT !.status = 400,
                                     !.detail = "session_id is required when scope='session'"]]
                 ELSE [@ EXCEPT !.pc = "query", !.req = rq, !.ns = SearchNamespace(rq)]]
    /\ UNCHANGED <<servVars, provVars, nsq>>

SearchCallOtherMemory(q, ok) ==
    [op |-> "retrieve_memories", memory_id |-> "mem-other", namespace |-> search[q].ns,
     query |-> search[q].req.query, ok |-> ok]

SearchCall(q, ok) ==
    [op |-> "retrieve_memories", memory_id |-> app_memory_id, namespace |-> search[q].ns,
     query |-> search[q].req.query, ok |-> ok]

\* main.py:180-186: the backend is queried; its failure is answered with 500
SearchRetrieve(q) ==
    /\ search[q].pc = "query"
    /\ \/ search' = [search EXCEPT ![q] =
              [@ EXCEPT !.pc = "done",
                        !.calls = Append(@, SearchCall(q, FALSE)),
                        !.resp = [NoSearchResp EXCEPT !.status = 500,
                                    !.detail = "retrieve_memories failed"]]]
       \/ \E h \in SearchHits :
            search' = [search EXCEPT ![q] =
              [@ EXCEPT !.pc = "done",
                        !.calls = Append(@, SearchCall(q, TRUE)),
                        !.resp = [status |-> 200, detail |-> NONE,
                                  actor_id |-> actor_id_for_user(search[q].req.user_id),
                                  namespace |-> search[q].ns, hits |-> h]]]
    /\ UNCHANGED <<servVars, provVars, nsq>>

-----------------------------------------------------------------------------
(* app/memory/session.py: summary_namespace over the identifiers of callers *)

\* user_id and session_id are unconstrained strings (main.py:28, 30, 43, 46)
IdStrings == {"a", "b", "c", "a/b", "b/c"}

IdPairs == [actor_id : IdStrings, session_id : IdStrings]

NsIdle == nsq = [pc |-> "idle", p1 |-> NONE, p2 |-> NONE, n1 |-> NONE, n2 |-> NONE, n1b |-> NONE]

AuxIdle == SearchIdle /\ NsIdle

\* the function is applied to two pairs, and to the first pair once more
NamespacesComputed ==
    /\ nsq.pc = "idle"
    /\ \E x \in IdPairs, y \in IdPairs :
         nsq' = [pc |-> "done", p1 |-> x, p2 |-> y,
                 n1 |-> summary_namespace(x.actor_id, x.session_id),
                 n2 |-> summary_namespace(y.actor_id, y.session_id),
                 n1b |-> summary_namespace(x.actor_id, x.session_id)]
    /\ UNCHANGED <<servVars, provVars, search>>

-----------------------------------------------------------------------------
(* app/memory/client.py: the memory resource and its provisioning *)

MaxPolls60 == 2

MaxPolls90 == 3

PageSize == 1

Callers == {1, 2}

\* config.py:9, the name the resource is looked up and created under
BEDROCK_MEMORY_NAME == "abc123"

TerminalOrCreating == {"ACTIVE", "FAILED", "DELETING", "DELETED", "CREATING"}

\* client.py:42
Terminal == {"ACTIVE", "FAILED", "DELETING", "DELETED"}

Res(id, name, status) == [id |-> id, name |-> name, status |-> status]

NoRes == Res(NONE, NONE, NONE)

\* the listings the backend may hold before the first call
InitialListings ==
    { <<>>,
      <<Res("zzz-9", "OtherMemory", "ACTIVE")>>,
      <<Res("abc123-suffix", "Renamed", "ACTIVE")>>,
      <<Res("mem-0001", "abc123", "CREATING")>>,
      <<Res("abc123-suffix", "Renamed", "ACTIVE"), Res("mem-0001", "abc123", "ACTIVE")>>,
      <<Res("zzz-9", "OtherMemory", "ACTIVE"), Res("mem-0001", "abc123", "FAILED")>> }

OverrideIds == {NONE, "mem-0001", "gone-7"}

\* the name argument of ensure_memory; lifespan passes none
NameInputs == {NONE, "OtherMemory"}

\* client.py:63
TargetName(name) == IF Truthy(name) THEN name ELSE BEDROCK_MEMORY_NAME

UsesOverrideNever(id) == FALSE

\* client.py:66
UsesOverride(id) == Truthy(id)

\* the rounds of poll_memory_status that fit before the deadline
PollRounds(timeout_sec) == IF timeout_sec = 60 THEN MaxPolls60 ELSE MaxPolls90

\* client.py:47: the message of the TimeoutError
TimeoutMessage(memory_id, timeout_sec) ==
    "Memory " \o memory_id \o " did not become ACTIVE within "
    \o ToString(timeout_sec) \o "s"

\* the id the backend gives to the resource it creates under a name
CreatedId(name) == name \o "-Xa1b2c3d4e"

\* str.startswith
StartsWith(s, prefix) ==
    Len(prefix) <= Len(s) /\ SubSeq(s, 1, Len(prefix)) = prefix

\* _ctrl.list_memories: one page of the listing; the token is the number of
\* the next page, 0 (falsy) when there is none
ListPage(rs, token) ==
    LET first == token * PageSize + 1
        last == IF first + PageSize - 1 < Len(rs) THEN first + PageSize - 1 ELSE Len(rs)
    IN  [memories |-> SubSeq(rs, first, last),
         nextToken |-> IF last < Len(rs) THEN token + 1 ELSE 0]

ListFirstPage(rs, token) == ListPage(rs, token).memories

\* client.py:21-26: the number of list_memories calls the loop makes
RECURSIVE PagesRead(_, _)
PagesRead(rs, token) ==
    LET page == ListPage(rs, token)
    IN  IF page.nextToken = 0 THEN 1 ELSE 1 + PagesRead(rs, page.nextToken)

\* client.py:18-27: ctrl_list_memories
RECURSIVE ListFrom(_, _)
ListFrom(rs, token) ==
    LET page == ListPage(rs, token)
    IN  IF page.nextToken = 0 THEN page.memories
        ELSE page.memories \o ListFrom(rs, page.nextToken)

ctrl_list_memories(rs) == ListFrom(rs, 0)

MatchesActive(m, target_name) ==
    m.status = "ACTIVE" /\ (m.name = target_name \/ StartsWith(m.id, target_name))

MatchesNameOnly(m, target_name) == m.name = target_name

\* client.py:53: the test a listed resource must pass
Matches(m, target_name) ==
    m.name = target_name \/ (Truthy(m.id) /\ StartsWith(m.id, target_name))

find_nothing(rs, target_name) == NoRes

\* client.py:49-59: the first listed resource that passes the test, NoRes
\* (None) when there is none
find_memory_by_name_or_prefix(rs, target_name) ==
    LET listed == ctrl_list_memories(rs)
        hit == { i \in 1..Len(listed) : Matches(listed[i], target_name) }
    IN  IF hit = {} THEN NoRes
        ELSE listed[CHOOSE i \in hit : \A j \in hit : i <= j]

\* ctrl_get_memory: the resource of that id
Lookup(rs, id) ==
    IF \E i \in 1..Len(rs) : rs[i].id = id
    THEN rs[CHOOSE i \in 1..Len(rs) : rs[i].id = id]
    ELSE NoRes

NoLocal == [target_name |-> NONE, poll_id |-> NONE, timeout_sec |-> 0, polls_left |-> 0,
            fetch_errors |-> 0, refound |-> FALSE]

NoOutcome == [kind |-> "none", id |-> NONE, status |-> NONE, exc |-> NONE, msg |-> NONE]

NoCalls == [list |-> 0, get |-> 0, create |-> 0]

ProvIdle ==
    /\ override_id = NONE
    /\ resources = <<>>
    /\ unlisted = FALSE
    /\ ppc = [c \in Callers |-> "idle"]
    /\ plocal = [c \in Callers |-> NoLocal]
    /\ pres = [c \in Callers |-> NoOutcome]
    /\ ncalls = [c \in Callers |-> NoCalls]
    /\ began_after = [c \in Callers |-> {}]

ProvInit ==
    /\ InitServing("prov")
    /\ AuxIdle
    /\ override_id \in OverrideIds
    /\ resources \in InitialListings
    /\ unlisted \in BOOLEAN
    /\ ppc = [c \in Callers |-> "idle"]
    /\ plocal = [c \in Callers |-> NoLocal]
    /\ pres = [c \in Callers |-> NoOutcome]
    /\ ncalls = [c \in Callers |-> NoCalls]
    /\ began_after = [c \in Callers |-> {}]

Finished(c) == ppc[c] \in {"returned", "raised"}

Bump(c, op) == [ncalls EXCEPT ![c][op] = @ + 1]

Raise(c, exc, msg) ==
    /\ ppc' = [ppc EXCEPT ![c] = "raised"]
    /\ pres' = [pres EXCEPT ![c] =
           [kind |-> "raised", id |-> NONE, status |-> NONE, exc |-> exc, msg |-> msg]]

\* poll_memory_status(memory_id, timeout_sec) is entered
StartPoll(loc, memory_id, timeout_sec) ==
    [loc EXCEPT !.poll_id = memory_id, !.timeout_sec = timeout_sec,
                !.polls_left = PollRounds(timeout_sec)]

\* client.py:61-68: ensure_memory is entered; the override id is polled directly
EnsureStart(c) ==
    /\ ppc[c] = "idle"
    /\ began_after' = [began_after EXCEPT ![c] = { d \in Callers : Finished(d) }]
    /\ \E name \in NameInputs :
         LET loc == [NoLocal EXCEPT !.target_name = TargetName(name)]
         IN  IF UsesOverride(override_id)
             THEN /\ ppc' = [ppc EXCEPT ![c] = "poll"]
                  /\ plocal' = [plocal EXCEPT ![c] = StartPoll(loc, override_id, 60)]
             ELSE /\ ppc' = [ppc EXCEPT ![c] = "find"]
                  /\ plocal' = [plocal EXCEPT ![c] = loc]
    /\ UNCHANGED <<override_id, resources, unlisted, pres, ncalls>>

\* client.py:72-75: discovery; a found resource is polled for 60 s
FindExisting(c) ==
    /\ ppc[c] = "find"
    /\ LET existing == find_memory_by_name_or_prefix(resources, plocal[c].target_name)
       IN  /\ IF existing # NoRes
              THEN /\ ppc' = [ppc EXCEPT ![c] = "poll"]
                   /\ plocal' = [plocal EXCEPT ![c] = StartPoll(@, existing.id, 60)]
                   /\ ncalls' = [ncalls EXCEPT ![c].list = @ + 1, ![c].get = @ + 1]
              ELSE /\ ppc' = [ppc EXCEPT ![c] = "create"]
                   /\ ncalls' = Bump(c, "list")
                   /\ UNCHANGED plocal
    /\ UNCHANGED <<override_id, resources, unlisted, pres, began_after>>

\* the backend accepts a create of a name it does not hold yet
NameTaken(rs, name) == unlisted \/ \E i \in 1..Len(rs) : rs[i].name = name

\* client.py:84-89: create_memory succeeds; the new resource is polled for 90 s
CreateSucceeds(c) ==
    /\ ppc[c] = "create"
    /\ ~NameTaken(resources, plocal[c].target_name)
    /\ LET mem_id == CreatedId(plocal[c].target_name)
       IN  /\ resources' = Append(resources, Res(mem_id, plocal[c].target_name, "CREATING"))
           /\ plocal' = [plocal EXCEPT ![c] = StartPoll(@, mem_id, 90)]
    /\ ncalls' = Bump(c, "create")
    /\ ppc' = [ppc EXCEPT ![c] = "poll"]
    /\ UNCHANGED <<override_id, unlisted, pres, began_after>>

\* client.py:90-95: create_memory fails with a ClientError whose message
\* contains "already exists"; discovery is run again
CreateConflicts(c) ==
    /\ ppc[c] = "create"
    /\ NameTaken(resources, plocal[c].target_name)
    /\ ncalls' = Bump(c, "create")
    /\ ppc' = [ppc EXCEPT ![c] = "refind"]
    /\ UNCHANGED <<override_id, resources, unlisted, plocal, pres, began_after>>

CreateFailsRediscovers(c) ==
    /\ ppc[c] = "create"
    /\ ncalls' = Bump(c, "create")
    /\ ppc' = [ppc EXCEPT ![c] = "refind"]
    /\ UNCHANGED <<override_id, resources, unlisted, plocal, pres, began_after>>

\* client.py:99: any other failure of create_memory propagates
CreateFails(c) ==
    /\ ppc[c] = "create"
    /\ ncalls' = Bump(c, "create")
    /\ Raise(c, "ClientError", "create_memory failed")
    /\ UNCHANGED <<override_id, resources, unlisted, plocal, began_after>>

FindAgainRetrying(c) ==
    /\ ppc[c] = "refind"
    /\ ncalls' = Bump(c, "list")
    /\ ppc' = [ppc EXCEPT ![c] = "create"]
    /\ UNCHANGED <<override_id, resources, unlisted, plocal, pres, began_after>>

\* client.py:95-98: the second discovery; RuntimeError when nothing is found
FindAgain(c) ==
    /\ ppc[c] = "refind"
    /\ LET existing == find_memory_by_name_or_prefix(resources, plocal[c].target_name)
       IN  IF existing # NoRes
           THEN /\ ppc' = [ppc EXCEPT ![c] = "poll"]
                /\ plocal' = [plocal EXCEPT ![c] =
                       [StartPoll(@, existing.id, 90) EXCEPT !.refound = TRUE]]
                /\ ncalls' = [ncalls EXCEPT ![c].list = @ + 1, ![c].get = @ + 1]
                /\ UNCHANGED pres
           ELSE /\ ncalls' = Bump(c, "list")
                /\ Raise(c, "RuntimeError",
                         "Create reported 'already exists' but finder couldn't locate it.")
                /\ UNCHANGED plocal
    /\ UNCHANGED <<override_id, resources, unlisted, began_after>>

\* client.py:35-46: one round of poll_memory_status before the deadline: the
\* fetched status is terminal and the resource is returned
PollReturns(c) ==
    /\ ppc[c] = "poll"
    /\ plocal[c].polls_left > 0
    /\ LET mem == Lookup(resources, plocal[c].poll_id)
       IN  /\ mem # NoRes
           /\ mem.status \in Terminal
           /\ pres' = [pres EXCEPT ![c] =
                  [kind |-> "returned", id |-> mem.id, status |-> mem.status,
                   exc |-> NONE, msg |-> NONE]]
    /\ ncalls' = Bump(c, "get")
    /\ ppc' = [ppc EXCEPT ![c] = "returned"]
    /\ UNCHANGED <<override_id, resources, unlisted, plocal, began_after>>

\* client.py:35-46: one round in which the fetched status is not terminal;
\* the poll sleeps 3 s
PollPending(c) ==
    /\ ppc[c] = "poll"
    /\ plocal[c].polls_left > 0
    /\ LET mem == Lookup(resources, plocal[c].poll_id)
       IN  mem # NoRes /\ mem.status \notin Terminal
    /\ ncalls' = Bump(c, "get")
    /\ plocal' = [plocal EXCEPT ![c].polls_left = @ - 1]
    /\ UNCHANGED <<override_id, resources, unlisted, ppc, pres, began_after>>

PollGetAborts(c) ==
    /\ ppc[c] = "poll"
    /\ plocal[c].polls_left > 0
    /\ ncalls' = Bump(c, "get")
    /\ plocal' = [plocal EXCEPT ![c].fetch_errors = @ + 1]
    /\ Raise(c, "ClientError", "get_memory failed")
    /\ UNCHANGED <<override_id, resources, unlisted, began_after>>

\* client.py:43-44: one round in which get_memory raises (no such resource,
\* or a fault of the service); the error is swallowed and the poll sleeps 3 s
PollGetFails(c) ==
    /\ ppc[c] = "poll"
    /\ plocal[c].polls_left > 0
    /\ ncalls' = Bump(c, "get")
    /\ plocal' = [plocal EXCEPT ![c].polls_left = @ - 1, ![c].fetch_errors = @ + 1]
    /\ UNCHANGED <<override_id, resources, unlisted, ppc, pres, began_after>>

\* client.py:47: the deadline has passed
PollTimesOut(c) ==
    /\ ppc[c] = "poll"
    /\ plocal[c].polls_left = 0
    /\ Raise(c, "TimeoutError", TimeoutMessage(plocal[c].poll_id, plocal[c].timeout_sec))
    /\ UNCHANGED <<override_id, resources, unlisted, plocal, ncalls, began_after>>

\* the backend finishes the creation of a resource
BackendSettles ==
    /\ \E i \in 1..Len(resources), st \in {"ACTIVE", "FAILED"} :
         /\ resources[i].status = "CREATING"
         /\ resources' = [resources EXCEPT ![i].status = st]
    /\ UNCHANGED <<override_id, unlisted, ppc, plocal, pres, ncalls, began_after>>

\* main.py:54-59: lifespan stores the id of what ensure_memory() returned to
\* it (caller 1) and the application starts serving
LifespanStores ==
    /\ pres[1].kind = "returned"
    /\ ~Truthy(app_memory_id)
    /\ app_memory_id' = pres[1].id
    /\ UNCHANGED <<mode, pc, req, ids, hits, long_term_context, system_prompt, result,
                   meta, errors, resp, calls>>
    /\ UNCHANGED <<provVars, auxVars>>

ProvNext ==
    \/ \E c \in Callers : EnsureStart(c) /\ UNCHANGED <<servVars, auxVars>>
    \/ \E c \in Callers : FindExisting(c) /\ UNCHANGED <<servVars, auxVars>>
    \/ \E c \in Callers : CreateSucceeds(c) /\ UNCHANGED <<servVars, auxVars>>
    \/ \E c \in Callers : CreateConflicts(c) /\ UNCHANGED <<servVars, auxVars>>
    \/ \E c \in Callers : CreateFails(c) /\ UNCHANGED <<servVars, auxVars>>
    \/ \E c \in Callers : FindAgain(c) /\ UNCHANGED <<servVars, auxVars>>
    \/ \E c \in Callers : PollReturns(c) /\ UNCHANGED <<servVars, auxVars>>
    \/ \E c \in Callers : PollPending(c) /\ UNCHANGED <<servVars, auxVars>>
    \/ \E c \in Callers : PollGetFails(c) /\ UNCHANGED <<servVars, auxVars>>
    \/ \E c \in Callers : PollTimesOut(c) /\ UNCHANGED <<servVars, auxVars>>
    \/ BackendSettles /\ UNCHANGED <<servVars, auxVars>>
    \/ LifespanStores

ProvSpec == ProvInit /\ [][ProvNext]_vars

\* client.py:35-47: one pass of the loop of poll_memory_status, or its exit
PollStep(c) ==
    (PollReturns(c) \/ PollPending(c) \/ PollGetFails(c) \/ PollTimesOut(c))
    /\ UNCHANGED <<servVars, auxVars>>

\* a caller inside poll_memory_status keeps running
ProvLiveSpec == ProvSpec /\ \A c \in Callers : WF_vars(PollStep(c))

-----------------------------------------------------------------------------
(* The serving application and its specifications *)

Init == InitServing("single") /\ ProvIdle /\ AuxIdle

Next ==
    \/ \E r \in Active : ReceiveInvoke(r) /\ UNCHANGED <<provVars, auxVars>>
    \/ \E r \in Active : ManualHydrate(r) /\ UNCHANGED <<provVars, auxVars>>
    \/ \E r \in Active : SkipHydrate(r) /\ UNCHANGED <<provVars, auxVars>>
    \/ \E r \in Active : BuildAgent(r) /\ UNCHANGED <<provVars, auxVars>>
    \/ \E r \in Active : HookBefore(r) /\ UNCHANGED <<provVars, auxVars>>
    \/ \E r \in Active : AgentReturns(r) /\ UNCHANGED <<provVars, auxVars>>
    \/ \E r \in Active : AgentRaises(r) /\ UNCHANGED <<provVars, auxVars>>
    \/ \E r \in Active : HookAfter(r) /\ UNCHANGED <<provVars, auxVars>>
    \/ \E r \in Active : ReturnFromAssistant(r) /\ UNCHANGED <<provVars, auxVars>>
    \/ \E r \in Active : ShortTermWrite(r) /\ UNCHANGED <<provVars, auxVars>>
    \/ \E r \in Active : LongTermWrite(r) /\ UNCHANGED <<provVars, auxVars>>
    \/ \E r \in Active : SkipLongTermWrite(r) /\ UNCHANGED <<provVars, auxVars>>
    \/ \E r \in Active : Respond(r) /\ UNCHANGED <<provVars, auxVars>>

Spec == Init /\ [][Next]_vars

ConcInit == InitServing("conc") /\ ProvIdle /\ AuxIdle

ConcSpec == ConcInit /\ [][Next]_vars

SessionInit == InitServing("sessions") /\ ProvIdle /\ AuxIdle

SessionSpec == SessionInit /\ [][Next]_vars

SearchInit == InitServing("search") /\ ProvIdle /\ AuxIdle

SearchNext ==
    \/ \E q \in SearchReqs : SearchReceive(q)
    \/ \E q \in SearchReqs : SearchRetrieve(q)

SearchSpec == SearchInit /\ [][SearchNext]_vars

\* the application from its start: lifespan runs ensure_memory(), stores the
\* id, and only then are invoke and memories_search served (main.py:54-61)
StartupListings == { l \in InitialListings : Len(l) <= 1 }

StartupInit ==
    /\ InitServing("startup")
    /\ AuxIdle
    /\ override_id \in {NONE, "mem-0001"}
    /\ resources \in StartupListings
    /\ unlisted \in BOOLEAN
    /\ ppc = [c \in Callers |-> "idle"]
    /\ plocal = [c \in Callers |-> NoLocal]
    /\ pres = [c \in Callers |-> NoOutcome]
    /\ ncalls = [c \in Callers |-> NoCalls]
    /\ began_after = [c \in Callers |-> {}]

StartupNext ==
    \/ EnsureStart(1) /\ UNCHANGED <<servVars, auxVars>>
    \/ FindExisting(1) /\ UNCHANGED <<servVars, auxVars>>
    \/ CreateSucceeds(1) /\ UNCHANGED <<servVars, auxVars>>
    \/ CreateConflicts(1) /\ UNCHANGED <<servVars, auxVars>>
    \/ CreateFails(1) /\ UNCHANGED <<servVars, auxVars>>
    \/ FindAgain(1) /\ UNCHANGED <<servVars, auxVars>>
    \/ PollReturns(1) /\ UNCHANGED <<servVars, auxVars>>
    \/ PollPending(1) /\ UNCHANGED <<servVars, auxVars>>
    \/ PollGetFails(1) /\ UNCHANGED <<servVars, auxVars>>
    \/ PollTimesOut(1) /\ UNCHANGED <<servVars, auxVars>>
    \/ BackendSettles /\ UNCHANGED <<servVars, auxVars>>
    \/ LifespanStores
    \/ ReceiveInvoke(1) /\ UNCHANGED <<provVars, auxVars>>
    \/ ManualHydrate(1) /\ UNCHANGED <<provVars, auxVars>>
    \/ SkipHydrate(1) /\ UNCHANGED <<provVars, auxVars>>
    \/ BuildAgent(1) /\ UNCHANGED <<provVars, auxVars>>
    \/ HookBefore(1) /\ UNCHANGED <<provVars, auxVars>>
    \/ AgentReturns(1) /\ UNCHANGED <<provVars, auxVars>>
    \/ AgentRaises(1) /\ UNCHANGED <<provVars, auxVars>>
    \/ HookAfter(1) /\ UNCHANGED <<provVars, auxVars>>
    \/ ReturnFromAssistant(1) /\ UNCHANGED <<provVars, auxVars>>
    \/ ShortTermWrite(1) /\ UNCHANGED <<provVars, auxVars>>
    \/ LongTermWrite(1) /\ UNCHANGED <<provVars, auxVars>>
    \/ SkipLongTermWrite(1) /\ UNCHANGED <<provVars, auxVars>>
    \/ Respond(1) /\ UNCHANGED <<provVars, auxVars>>
    \/ Truthy(app_memory_id) /\ SearchReceive(1)
    \/ SearchRetrieve(1)

StartupSpec == StartupInit /\ [][StartupNext]_vars

NsInit == InitServing("namespace") /\ ProvIdle /\ AuxIdle

NsNext == NamespacesComputed

NsSpec == NsInit /\ [][NsNext]_vars

-----------------------------------------------------------------------------
(* Reading the history of calls *)

EntriesOf(r, op) == SelectSeq(calls, LAMBDA e : e.rid = r /\ e.op = op)

\* the create_event calls of request r made at the given call sites:
\* "short_term" main.py:134, "long_term" main.py:147, "hook_after" hooks.py:63
WritesAt(r, sites) ==
    SelectSeq(calls, LAMBDA e : e.rid = r /\ e.op = "create_event" /\ e.site \in sites)

ProfileWrites(r) == WritesAt(r, {"hook_after", "long_term"})

SessionWrites(r) == WritesAt(r, {"short_term"})

Retrievals(r) == EntriesOf(r, "retrieve_memories")

RetrievalFailed(r) == \E i \in 1..Len(Retrievals(r)) : ~Retrievals(r)[i].ok

AgentRaised(r) == \E i \in 1..Len(EntriesOf(r, "agent")) : ~EntriesOf(r, "agent")[i].ok

HeaderMark == "# Long-term user context (read-only)"

\* number of places where the string m occurs in the string s
Occurrences(m, s) ==
    Cardinality({ i \in 1..(Len(s) - Len(m) + 1) : SubSeq(s, i, i + Len(m) - 1) = m })

\* the keys invoke must have recorded for the failed writes of request r
FailedWriteKeys(r) ==
    { k \in {"short_term_write_error", "long_term_write_error"} :
        \E i \in 1..Len(calls) :
            /\ calls[i].rid = r /\ calls[i].op = "create_event" /\ ~calls[i].ok
            /\ calls[i].site = (IF k = "short_term_write_error" THEN "short_term" ELSE "long_term") }

-----------------------------------------------------------------------------
(* C1: every invoke call in which the agent returned a response makes       *)
(* exactly one ProfileSession write-back (session id profile-<actor_id>):   *)
(* by LongTermMemoryHook.after_invocation when use_hooks is true, by invoke *)
(* itself when use_hooks is false; never zero and never two.                *)
C1_ExactlyOneProfileWrite ==
    \A r \in Reqs :
        LET pw == ProfileWrites(r)
        IN  /\ Len(pw) <= 1
            /\ pc[r] = "done" =>
                 /\ Len(pw) = 1
                 /\ pw[1].target = "profile-" \o req[r].user_id
                 /\ pw[1].actor = req[r].user_id
                 /\ pw[1].site = (IF req[r].use_hooks THEN "hook_after" ELSE "long_term")

C1_Witness ==
    \E r \in Reqs :
        /\ pc[r] = "done" /\ req[r].use_hooks
        /\ Len(ProfileWrites(r)) = 1 /\ ProfileWrites(r)[1].site = "hook_after"

(* C2: every invoke call in which the agent returned a response attempts    *)
(* exactly one create_event into the active session's stream, the resolved  *)
(* session_id of the request, whatever use_hooks and use_long_term are.     *)
C2_ExactlyOneSessionWrite ==
    \A r \in Reqs :
        LET sw == SessionWrites(r)
        IN  /\ Len(sw) <= 1
            /\ pc[r] \in {"lt_write", "respond", "done"} =>
                 /\ Len(sw) = 1
                 /\ sw[1].actor = req[r].user_id
                 /\ Truthy(sw[1].target)
                 /\ Truthy(req[r].session_id) => sw[1].target = req[r].session_id
                 /\ ~Truthy(req[r].session_id) =>
                        sw[1].target \in { "session-" \o t : t \in GeneratedTokens }
                 /\ pc[r] = "done" => sw[1].target = resp[r].session_id

C2_Witness ==
    \E r \in Reqs :
        /\ pc[r] = "done" /\ req[r].session_id = NONE /\ ~req[r].use_long_term
        /\ Len(SessionWrites(r)) = 1 /\ ~SessionWrites(r)[1].ok

(* C3: when use_hooks is true invoke itself writes only to the active       *)
(* session stream and never to the ProfileSession stream; the ProfileSession*)
(* write of the turn is made by the hook, so the turn has two writes in     *)
(* total, made by two different components.                                 *)
C3_HooksInvokeWritesSessionOnly ==
    \A r \in Reqs :
        req[r].use_hooks =>
            /\ WritesAt(r, {"long_term"}) = <<>>
            /\ pc[r] = "done" =>
                 LET w == EntriesOf(r, "create_event")
                 IN  /\ Len(w) = 2
                     /\ w[1].site = "hook_after"
                     /\ w[1].target = "profile-" \o req[r].user_id
                     /\ w[2].site = "short_term"
                     /\ w[2].target = resp[r].session_id

C3_Witness ==
    \E r \in Reqs :
        /\ pc[r] = "done" /\ req[r].use_hooks
        /\ Len(EntriesOf(r, "create_event")) = 2

(* C4: in one invocation the two hydration strategies are never both        *)
(* active: the manual retrieval and the manual context block happen only    *)
(* when use_hooks is false, the hook runs only when use_hooks is true, the  *)
(* instructions hold at most one long-term context block and the profile    *)
(* namespace is queried for hydration at most once.                         *)
C4_StrategiesExclusive ==
    \A r \in Reqs :
        LET rt == Retrievals(r)
        IN  /\ Len(rt) <= 1
            /\ \A i \in 1..Len(rt) :
                 /\ rt[i].site = "invoke" => ~req[r].use_hooks /\ req[r].use_long_term
                 /\ rt[i].site = "hook" => req[r].use_hooks
                 /\ rt[i].target = "/summaries/" \o req[r].user_id
                                   \o "/profile-" \o req[r].user_id
            /\ pc[r] \in {"before_hook", "after_hook"} => req[r].use_hooks
            /\ Truthy(long_term_context[r]) => ~req[r].use_hooks
            /\ Occurrences(HeaderMark, system_prompt[r]) <= 1

C4_Witness ==
    \E r \in Reqs :
        /\ pc[r] = "model" /\ req[r].use_hooks /\ req[r].use_long_term
        /\ Occurrences(HeaderMark, system_prompt[r]) = 1
        /\ Len(Retrievals(r)) = 1

-----------------------------------------------------------------------------
(* Manual hydration: what reaches the instructions *)

\* the records a retrieval result carries, whatever its container
ReturnedRecords(h) == h.records \o h.items \o h.elems

TextFields(x) == { k \in {"text", "content", "value", "summary"} : Truthy(x[k]) }

\* a mapping record that carries one text, without surrounding whitespace
TextBearing(x) ==
    /\ x.kind = "map"
    /\ Cardinality(TextFields(x)) = 1
    /\ \A k \in TextFields(x) : Strip(x[k]) = x[k]

OnlyText(x) == x[CHOOSE k \in TextFields(x) : TRUE]

-----------------------------------------------------------------------------
-----------------------------------------------------------------------------
(* C7: under the hook strategy a failure of the post-invocation             *)
(* ProfileSession write is non-fatal to the response and is observable:     *)
(* the failure is recorded so that the data loss can be detected.           *)
C7_HookWriteFailureObservable ==
    \A r \in Reqs :
        (/\ req[r].use_hooks
         /\ pc[r] = "done"
         /\ \E i \in 1..Len(ProfileWrites(r)) : ~ProfileWrites(r)[i].ok)
        => /\ resp[r].status = 200
           /\ "long_term_write_error" \in resp[r].errors

-----------------------------------------------------------------------------
(* C8: in both strategies, if the hydration call retrieve_memories raises,  *)
(* the agent is still invoked with un-augmented instructions, the request   *)
(* succeeds, the failure appears neither in the response nor in its debug   *)
(* map, and the write-backs of the turn are still performed.                *)
C8_RetrievalFailureDegrades ==
    \A r \in Reqs :
        RetrievalFailed(r) =>
            /\ pc[r] = "model" => system_prompt[r] = BASE_SYSTEM_PROMPT
            /\ pc[r] = "failed" => AgentRaised(r)
            /\ pc[r] \in {"after_hook", "return", "st_write", "lt_write", "respond", "done"}
                 => Len(EntriesOf(r, "agent")) = 1
            /\ pc[r] = "done" =>
                 /\ resp[r].status = 200
                 /\ ~resp[r].manual_lt_injected
                 /\ resp[r].errors = FailedWriteKeys(r)
                 /\ Len(SessionWrites(r)) = 1
                 /\ Len(ProfileWrites(r)) = 1

C8_Witness ==
    \E r \in Reqs :
        /\ RetrievalFailed(r) /\ pc[r] = "done" /\ req[r].use_hooks
        /\ resp[r].errors = {}

-----------------------------------------------------------------------------
(* Two turns on one session *)

\* the place in the history of the entry (op, site) of request r, 0 if none
PosOf(r, op, sites) ==
    IF \E i \in 1..Len(calls) : calls[i].rid = r /\ calls[i].op = op /\ calls[i].site \in sites
    THEN CHOOSE i \in 1..Len(calls) :
            calls[i].rid = r /\ calls[i].op = op /\ calls[i].site \in sites
    ELSE 0

ReceivedAt(r) == PosOf(r, "receive", {"invoke"})

RespondedAt(r) == PosOf(r, "respond", {"invoke"})

SameSession(a, b) ==
    /\ ids[a].actor_id = ids[b].actor_id
    /\ ids[a].session_id = ids[b].session_id

\* every write-back of turn a was made before turn b's hydration read and
\* before turn b's own writes
WritesOfBefore(a, b) ==
    LET sw == PosOf(a, "create_event", {"short_term"})
        pw == PosOf(a, "create_event", {"hook_after", "long_term"})
    IN  \A j \in 1..Len(calls) :
            (calls[j].rid = b /\ calls[j].op \in {"retrieve_memories", "create_event"})
            => /\ 0 < sw /\ sw < j
               /\ 0 < pw /\ pw < j

(* C9, for any two calls, two requests in flight at the same time          *)
(* included: of two invoke calls on the same (user_id, session_id), taken   *)
(* in their order of arrival, the write-backs of the earlier turn are made  *)
(* before the hydration read and the writes of the later turn.              *)
C9_InFlightTurnsSerialized ==
    \A a, b \in Reqs :
        (/\ a # b
         /\ 0 < ReceivedAt(a) /\ ReceivedAt(a) < ReceivedAt(b)
         /\ SameSession(a, b)
         /\ 0 < RespondedAt(a))
        => WritesOfBefore(a, b)

(* C9, for calls in sequence: when the later invoke call on the same       *)
(* (user_id, session_id) arrives after the earlier call has returned, the   *)
(* write-backs of the earlier turn were made, and the failures of invoke's  *)
(* own writes recorded in its debug map, before the hydration read of the   *)
(* later turn, and the events of the two turns are appended to the session  *)
(* stream in arrival order.                                                 *)
C9_SequentialTurnsSerialized ==
    \A a, b \in Reqs :
        (/\ a # b
         /\ 0 < RespondedAt(a) /\ RespondedAt(a) < ReceivedAt(b)
         /\ SameSession(a, b))
        => /\ WritesOfBefore(a, b)
           /\ resp[a].errors \cap {"short_term_write_error", "long_term_write_error"}
                = FailedWriteKeys(a)

C9_Witness ==
    \E a, b \in Reqs :
        /\ a # b
        /\ 0 < RespondedAt(a) /\ RespondedAt(a) < ReceivedAt(b)
        /\ SameSession(a, b)
        /\ pc[b] = "done"
        /\ Len(Retrievals(b)) = 1
        /\ ~SessionWrites(a)[1].ok

-----------------------------------------------------------------------------
(* Provisioning claims *)

OfName(name) == { i \in 1..Len(resources) : resources[i].name = name }

NoPriorResource ==
    /\ ~unlisted
    /\ \A i \in 1..Len(resources) : resources[i].id = CreatedId(BEDROCK_MEMORY_NAME)

\* caller b entered ensure_memory after caller a had returned normally
InSequence(a, b) ==
    a # b /\ a \in began_after[b] /\ pres[a].kind = "returned"

(* C10: when ensure_memory is called twice in sequence with no override id and
   no prior resource, the first call makes exactly one create call, the second
   call finds the resource through discovery and makes no create call, a
   second call that returns gives the id the first call returned, and exactly
   one resource of the name exists. *)
C10_EnsureMemoryIdempotent ==
    \A a \in Callers, b \in Callers :
        (/\ override_id = NONE /\ NoPriorResource /\ InSequence(a, b)
         /\ plocal[a].target_name = BEDROCK_MEMORY_NAME
         /\ plocal[b].target_name = BEDROCK_MEMORY_NAME) =>
            /\ ncalls[a].create = 1
            /\ ncalls[b].create = 0
            /\ ppc[b] \notin {"create", "refind"}
            /\ Cardinality(OfName(BEDROCK_MEMORY_NAME)) = 1
            /\ Len(resources) = 1
            /\ pres[b].kind = "returned" => pres[b].id = pres[a].id

C10_Witness ==
    \E a \in Callers, b \in Callers :
        /\ override_id = NONE /\ NoPriorResource /\ InSequence(a, b)
        /\ plocal[a].target_name = BEDROCK_MEMORY_NAME
        /\ plocal[b].target_name = BEDROCK_MEMORY_NAME
        /\ pres[b].kind = "returned"
        /\ pres[b].id = pres[a].id
        /\ ncalls[b].list = 1 /\ ncalls[b].create = 0

\* both callers are inside ensure_memory, or were, at the same time
Concurrent(a, b) ==
    /\ a # b
    /\ ppc[a] # "idle" /\ ppc[b] # "idle"
    /\ a \notin began_after[b] /\ b \notin began_after[a]

\* the backend answered every create of the two callers with success or with
\* the 'already exists' conflict
OnlyConflicts(a, b) == pres[a].exc # "ClientError" /\ pres[b].exc # "ClientError"

(* C11: when two callers run ensure_memory concurrently for the same target
   name with no prior resource, and the backend answers a second create of
   the name with an 'already exists' conflict, at most one resource of the
   name is created, the caller that lost the race re-discovers that resource
   and never raises RuntimeError, every caller that returns gives the id of
   that one resource, and a call ends otherwise only by the TimeoutError of
   its poll. *)
C11_RaceRecoversThroughRediscovery ==
    \A a \in Callers, b \in Callers :
        (/\ override_id = NONE /\ NoPriorResource /\ Concurrent(a, b)
         /\ plocal[a].target_name = BEDROCK_MEMORY_NAME
         /\ plocal[b].target_name = BEDROCK_MEMORY_NAME
         /\ OnlyConflicts(a, b)) =>
            /\ Len(resources) <= 1
            /\ ncalls[a].create <= 1
            /\ pres[a].kind = "raised" => pres[a].exc = "TimeoutError"
            /\ plocal[a].refound =>
                  /\ Len(resources) = 1
                  /\ plocal[a].poll_id = resources[1].id
                  /\ ~plocal[b].refound
            /\ pres[a].kind = "returned" =>
                  /\ Len(resources) = 1
                  /\ pres[a].id = resources[1].id
            /\ (pres[a].kind = "returned" /\ pres[b].kind = "returned") =>
                  pres[a].id = pres[b].id

C11_Witness ==
    \E a \in Callers, b \in Callers :
        /\ override_id = NONE /\ NoPriorResource /\ Concurrent(a, b)
        /\ plocal[a].target_name = BEDROCK_MEMORY_NAME
        /\ plocal[b].target_name = BEDROCK_MEMORY_NAME
        /\ ncalls[a].create = 1 /\ ncalls[b].create = 1
        /\ plocal[b].refound
        /\ pres[a].kind = "returned" /\ pres[b].kind = "returned"
        /\ pres[a].id = pres[b].id

(* C12: when create fails with an 'already exists' error, ensure_memory runs
   discovery once more and no more: a call makes at most one create call and
   at most two list calls; a resource found by the second discovery is polled
   for 90 s and is what the call returns; when none is found RuntimeError is
   raised at once, with no poll, no further create and no further list. *)
C12_ConflictRediscoversOnce ==
    \A c \in Callers :
        /\ ncalls[c].create <= 1
        /\ ncalls[c].list <= 2
        /\ ppc[c] = "refind" => ncalls[c].create = 1 /\ ncalls[c].list = 1
        /\ ncalls[c].list = 2 =>
              /\ ncalls[c].create = 1
              /\ ppc[c] \in {"poll", "returned", "raised"}
              /\ plocal[c].refound \/ pres[c].exc = "RuntimeError"
        /\ plocal[c].refound =>
              /\ ncalls[c].list = 2
              /\ plocal[c].timeout_sec = 90
              /\ \E i \in 1..Len(resources) :
                    /\ resources[i].id = plocal[c].poll_id
                    /\ \/ resources[i].name = plocal[c].target_name
                       \/ StartsWith(resources[i].id, plocal[c].target_name)
              /\ pres[c].kind = "returned" => pres[c].id = plocal[c].poll_id
              /\ pres[c].kind = "raised" => pres[c].exc = "TimeoutError"
        /\ pres[c].exc = "RuntimeError" =>
              /\ ncalls[c] = [list |-> 2, get |-> 0, create |-> 1]
              /\ ~plocal[c].refound
              /\ ~\E i \in 1..Len(resources) :
                    \/ resources[i].name = plocal[c].target_name
                    \/ StartsWith(resources[i].id, plocal[c].target_name)

C12_Witness ==
    \E c \in Callers :
        /\ pres[c].exc = "RuntimeError"
        /\ ncalls[c] = [list |-> 2, get |-> 0, create |-> 1]

\* the listed resources whose name is the target, and those that match the
\* target by their id only
ByName(t) == { i \in 1..Len(resources) : resources[i].name = t }

ByPrefixOnly(t) ==
    { i \in 1..Len(resources) :
        resources[i].name # t /\ StartsWith(resources[i].id, t) }

\* caller c has been through discovery and is polling, or has polled, what it found
Discovered(c) ==
    /\ ppc[c] \in {"poll", "returned", "raised"}
    /\ ncalls[c].list >= 1 /\ ncalls[c].create = 0

(* C13: when the listing holds a resource whose name equals the target and
   another that matches only by id prefix, discovery resolves the resource of
   that name, whatever their order in the listing. *)
C13_ExactNamePreferred ==
    \A c \in Callers :
        (/\ override_id = NONE /\ Discovered(c)
         /\ ByName(plocal[c].target_name) # {}
         /\ ByPrefixOnly(plocal[c].target_name) # {})
        => \E i \in ByName(plocal[c].target_name) : plocal[c].poll_id = resources[i].id

(* C14: when no resource has the target name but a listed resource has an id
   that starts with the target name, ensure_memory resolves the first such
   resource, polls it for 60 s, returns it only with a terminal status, and
   issues no create call. *)
C14_PrefixMatchResolved ==
    \A c \in Callers :
        LET t == plocal[c].target_name
        IN  (/\ override_id = NONE /\ ppc[c] \notin {"idle", "find"}
             /\ ByName(t) = {}
             /\ ByPrefixOnly(t) # {})
            => LET first == CHOOSE i \in ByPrefixOnly(t) : \A j \in ByPrefixOnly(t) : i <= j
               IN  /\ ppc[c] \in {"poll", "returned", "raised"}
                   /\ ncalls[c].create = 0
                   /\ ncalls[c].list = 1
                   /\ plocal[c].poll_id = resources[first].id
                   /\ plocal[c].timeout_sec = 60
                   /\ pres[c].kind = "returned" =>
                         /\ pres[c].id = resources[first].id
                         /\ pres[c].status \in {"ACTIVE", "FAILED", "DELETING", "DELETED"}
                   /\ pres[c].kind = "raised" => pres[c].exc = "TimeoutError"

C14_Witness ==
    \E c \in Callers :
        /\ override_id = NONE
        /\ plocal[c].target_name = "abc123"
        /\ ByName("abc123") = {}
        /\ pres[c].kind = "returned" /\ pres[c].id = "abc123-suffix"
        /\ ncalls[c].create = 0

(* C15: when an override id is configured, ensure_memory polls exactly that
   id for 60 s and returns it or raises the TimeoutError of the poll; it
   issues no list call and no create call, whatever resources exist and
   whatever name is passed. *)
C15_OverrideSkipsDiscovery ==
    \A c \in Callers :
        (override_id # NONE /\ override_id # "") =>
            /\ ncalls[c].list = 0
            /\ ncalls[c].create = 0
            /\ ppc[c] \in {"idle", "poll", "returned", "raised"}
            /\ ppc[c] # "idle" =>
                  /\ plocal[c].poll_id = override_id
                  /\ plocal[c].timeout_sec = 60
            /\ pres[c].kind = "returned" => pres[c].id = override_id
            /\ pres[c].kind = "raised" => pres[c].exc = "TimeoutError"
            /\ \A i \in 1..Len(resources) : resources[i].id # CreatedId(plocal[c].target_name)

C15_Witness ==
    \E c \in Callers, d \in Callers :
        /\ override_id = "mem-0001"
        /\ plocal[c].target_name = "OtherMemory" /\ plocal[d].target_name = "abc123"
        /\ pres[c].kind = "returned" /\ pres[c].id = "mem-0001"
        /\ pres[d].kind = "raised"
        /\ resources[1].id = "abc123-suffix"

\* what poll_memory_status may hand back to caller c
PollOutcomeSound(c) ==
    /\ pres[c].kind = "returned" =>
          /\ pres[c].status \in {"ACTIVE", "FAILED", "DELETING", "DELETED"}
          /\ pres[c].id = plocal[c].poll_id
          /\ \E i \in 1..Len(resources) : resources[i].id = pres[c].id
    /\ pres[c].exc = "TimeoutError" =>
          /\ plocal[c].polls_left = 0
          /\ plocal[c].timeout_sec \in {60, 90}
          /\ pres[c].msg = "Memory " \o plocal[c].poll_id
                             \o " did not become ACTIVE within "
                             \o (IF plocal[c].timeout_sec = 60 THEN "60" ELSE "90") \o "s"

(* C16: poll_memory_status always terminates: a caller inside it leaves it,
   it returns only a resource whose fetched status is ACTIVE, FAILED,
   DELETING or DELETED, never one that is CREATING, and when no terminal
   status is seen before the deadline it raises a TimeoutError whose message
   names the resource id and the timeout bound. *)
C16_PollTerminates ==
    /\ [](\A c \in Callers : PollOutcomeSound(c))
    /\ \A c \in Callers : (ppc[c] = "poll") ~> (ppc[c] \in {"returned", "raised"})

C16_Witness ==
    \E c \in Callers, d \in Callers :
        /\ pres[c].exc = "TimeoutError" /\ plocal[c].timeout_sec = 90
        /\ plocal[c].fetch_errors = 0
        /\ pres[d].kind = "returned" /\ pres[d].status = "FAILED"

(* C17: a failed status fetch never aborts poll_memory_status: the error is
   swallowed and the fetch is made again in the next round, so a poll that
   saw fetch errors and then a terminal status before the deadline returns
   that resource, and a poll whose every fetch failed ends in the deadline's
   TimeoutError. *)
C17_FetchErrorsSwallowed ==
    \A c \in Callers :
        plocal[c].fetch_errors > 0 =>
            /\ ppc[c] \in {"poll", "returned", "raised"}
            /\ ppc[c] = "poll" => plocal[c].polls_left >= 0
            /\ pres[c].kind = "raised" =>
                  /\ pres[c].exc = "TimeoutError"
                  /\ plocal[c].polls_left = 0
            /\ pres[c].kind = "returned" =>
                  /\ pres[c].status \in {"ACTIVE", "FAILED", "DELETING", "DELETED"}
                  /\ pres[c].id = plocal[c].poll_id
            /\ plocal[c].fetch_errors = PollRounds(plocal[c].timeout_sec) =>
                  /\ pres[c].kind # "returned"
                  /\ plocal[c].polls_left = 0

C17_Witness ==
    \E c \in Callers, d \in Callers :
        /\ plocal[c].fetch_errors = 2 /\ pres[c].kind = "returned"
        /\ plocal[d].fetch_errors = PollRounds(plocal[d].timeout_sec)
        /\ pres[d].exc = "TimeoutError"

(* C18: whenever ensure_memory returns normally the resource it returns
   exists and has status ACTIVE, and the memory id the application serves
   with is that of an ACTIVE resource. *)
C18_ReturnedResourceActive ==
    /\ \A c \in Callers :
          pres[c].kind = "returned" =>
              /\ pres[c].status = "ACTIVE"
              /\ \E i \in 1..Len(resources) : resources[i].id = pres[c].id
    /\ (mode = "prov" /\ app_memory_id # NONE) =>
          \E i \in 1..Len(resources) :
              resources[i].id = app_memory_id /\ resources[i].status = "ACTIVE"

-----------------------------------------------------------------------------
(* C19: a search with scope 'session' and no session_id is answered with
   status 400 at once and no call to the memory backend is made for it; a
   search with scope 'profile' needs no session_id and queries the namespace
   of the actor's ProfileSession. *)
C19_SessionScopeNeedsSessionId ==
    \A q \in SearchReqs :
        LET rq == search[q].req
        IN  /\ (search[q].pc # "idle" /\ rq.scope = "session" /\ rq.session_id \in {NONE, ""}) =>
                  /\ search[q].pc = "done"
                  /\ search[q].resp.status = 400
                  /\ search[q].calls = <<>>
            /\ (search[q].pc # "idle" /\ rq.scope = "profile") =>
                  /\ search[q].resp.status # 400
                  /\ search[q].ns = "/summaries/" \o rq.user_id \o "/profile-" \o rq.user_id
                  /\ \A i \in 1..Len(search[q].calls) :
                        search[q].calls[i].namespace = search[q].ns
                  /\ search[q].pc = "done" => Len(search[q].calls) = 1
                  /\ search[q].resp.status = 200 => search[q].resp.namespace = search[q].ns

C19_Witness ==
    /\ search[1].req.scope = "session" /\ search[1].req.session_id = NONE
    /\ search[1].resp.status = 400 /\ search[1].calls = <<>>
    /\ search[2].req.scope = "profile" /\ search[2].req.session_id = NONE
    /\ search[2].resp.status = 200
    /\ search[2].resp.namespace = "/summaries/u2/profile-u2"

(* C20: summary_namespace is a deterministic function of (actor_id,
   session_id) and two distinct pairs of identifiers never yield the same
   namespace path. *)
C20_NamespaceInjective ==
    nsq.pc = "done" =>
        /\ nsq.n1 = nsq.n1b
        /\ nsq.p1 # nsq.p2 => nsq.n1 # nsq.n2

-----------------------------------------------------------------------------
(* C21: in any invoke call, whether the session id is supplied by the caller
   or generated, the session id of the session-stream write differs from
   profile_session_id(actor_id), and no turn appends two events to the same
   stream. *)
C21_ProfileSessionDistinct ==
    \A r \in Reqs :
        /\ pc[r] # "idle" => ids[r].session_id # "profile-" \o ids[r].actor_id
        /\ LET w == EntriesOf(r, "create_event")
           IN  \A i \in 1..Len(w), j \in 1..Len(w) : i # j => w[i].target # w[j].target

-----------------------------------------------------------------------------
(* Normalisation of retrieval results *)

\* request r is about to run the model after a retrieval that did not raise
Hydrated(r) ==
    /\ pc[r] = "model"
    /\ Len(Retrievals(r)) = 1 /\ Retrievals(r)[1].ok

EmptyResult(h) == ReturnedRecords(h) = <<>>

\* None, {} or a mapping with empty lists, and []
EmptyResults ==
    { NullHits,
      [shape |-> "map", records |-> <<>>, items |-> <<>>, elems |-> <<>>],
      [shape |-> "list", records |-> <<>>, items |-> <<>>, elems |-> <<>>] }

(* C22: in both strategies a retrieval result that is null, an empty mapping,
   a mapping with an empty records/items list or an empty list normalizes to
   zero snippets without raising: no long-term context header is added to
   the instructions and the model is run with the base instructions. *)
C22_EmptyResultNoSnippets ==
    /\ \A h \in EmptyResults, k \in TopKs :
          /\ h \in HitsSet
          /\ extract_text_snippets(h, k) = [raised |-> FALSE, val |-> ""]
          /\ HookAugment(h, k) = [raised |-> FALSE, val |-> ""]
    /\ \A r \in Reqs :
          (Hydrated(r) /\ EmptyResult(hits[r])) =>
              /\ system_prompt[r] = BASE_SYSTEM_PROMPT
              /\ long_term_context[r] = ""

C22_Witness ==
    \E r \in Reqs :
        /\ Hydrated(r) /\ req[r].use_hooks
        /\ hits[r].shape = "list" /\ hits[r].elems = <<>>
        /\ system_prompt[r] = BASE_SYSTEM_PROMPT

\* a mapping record that carries its text under exactly one of the names
\* text, content, summary, and nothing else
OneOfThree(x) ==
    /\ TextBearing(x)
    /\ TextFields(x) \subseteq {"text", "content", "summary"}

(* C23: for a record carrying its text under exactly one of the field names
   text, content, summary, in either container shape (a mapping with a
   records or items key, a bare sequence), the hook normalizer and the manual
   normalizer each yield the snippet "- <text>" under the header. *)
C23_FieldsAndShapesNormalized ==
    \A r \in Reqs :
        (/\ Hydrated(r)
         /\ req[r].long_term_top_k >= 1
         /\ Len(ReturnedRecords(hits[r])) = 1
         /\ OneOfThree(ReturnedRecords(hits[r])[1]))
        => system_prompt[r] =
             BASE_SYSTEM_PROMPT \o "\n\n# Long-term user context (read-only)\n"
             \o "- " \o OnlyText(ReturnedRecords(hits[r])[1])

\* the instructions the manual strategy builds for a retrieval result
ManualInstructions(h, top_k) ==
    LET got == extract_text_snippets(h, top_k)
    IN  BuildSystemPrompt(IF got.raised THEN "" ELSE got.val, FALSE)

(* C24: for the same retrieval result and the same top_k, the instructions
   the hook strategy ends with equal the instructions the manual strategy
   builds, including for records that carry several of the text fields, none
   of them, or a value field. *)
C24_StrategiesHydrateAlike ==
    \A r \in Reqs :
        (Hydrated(r) /\ req[r].use_hooks) =>
            system_prompt[r] = ManualInstructions(hits[r], req[r].long_term_top_k)

(* C25: the number of long-term snippets in the instructions of one
   invocation never exceeds max(top_k, 0), in both strategies, for every
   long_term_top_k and however many records were returned. *)
C25_SnippetsBoundedByTopK ==
    \A r \in Reqs :
        pc[r] = "model" =>
            Occurrences("\n- ", system_prompt[r])
                <= (IF req[r].long_term_top_k > 0 THEN req[r].long_term_top_k ELSE 0)

-----------------------------------------------------------------------------
(* The steps of one turn *)

AgentAt(r) == PosOf(r, "agent", {"agent"})

\* the order of the steps of one turn, and the record of the failures of
\* invoke's own two writes
StepsOrdered ==
    \A r \in Reqs :
        /\ \A i \in 1..Len(calls) :
              calls[i].rid = r =>
                  /\ calls[i].op = "retrieve_memories" => (AgentAt(r) = 0 \/ i < AgentAt(r))
                  /\ calls[i].op = "create_event" =>
                        /\ 0 < AgentAt(r) /\ AgentAt(r) < i
                        /\ calls[AgentAt(r)].ok
                        /\ RespondedAt(r) = 0 \/ i < RespondedAt(r)
                  /\ calls[i].op = "respond" =>
                        /\ i = Len(EntriesOf(r, "receive")) + Len(Retrievals(r))
                               + Len(EntriesOf(r, "agent")) + Len(EntriesOf(r, "create_event")) + 1
                        /\ Len(SessionWrites(r)) = 1
                        /\ Len(ProfileWrites(r)) = 1
                        /\ pc[r] = "done"
                        /\ resp[r].errors = FailedWriteKeys(r)
        /\ AgentRaised(r) =>
              /\ EntriesOf(r, "create_event") = <<>>
              /\ RespondedAt(r) = 0
              /\ resp[r].status = 500

\* the key under which the response reports a failed write to a stream
ErrorKeyOf(e) ==
    IF e.site = "short_term" THEN "short_term_write_error" ELSE "long_term_write_error"

(* C26: within one invoke call the hydration read precedes the agent
   invocation, every write-back follows the agent's response, the response
   is returned only after every write-back of the turn has completed or had
   its failure recorded, nothing of the turn happens after the response, and
   no write-back happens if the agent raised. *)
C26_StepsInOrder ==
    /\ StepsOrdered
    /\ \A r \in Reqs :
          RespondedAt(r) # 0 =>
              \A i \in 1..Len(calls) :
                  (calls[i].rid = r /\ calls[i].op = "create_event" /\ ~calls[i].ok)
                      => ErrorKeyOf(calls[i]) \in resp[r].errors

(* C27: every event written for a turn is the pair (prompt, USER),
   (result_text, ASSISTANT) of that invocation, and the event written to the
   ProfileSession stream carries the same pair as the event written to the
   session stream, under the hook strategy as under the manual strategy. *)
C27_EventsCarryTheTurn ==
    \A r \in Reqs :
        pc[r] = "done" =>
            \A i \in 1..Len(calls) :
                (calls[i].rid = r /\ calls[i].op = "create_event") =>
                    /\ calls[i].user = req[r].prompt
                    /\ calls[i].asst = resp[r].result_text

-----------------------------------------------------------------------------
(* C28: a create failure that is not an 'already exists' conflict propagates
   out of ensure_memory: no discovery, no second create and no poll follow
   it, discovery is run again only after a conflict, and a TimeoutError
   raised while polling the created or re-discovered resource reaches the
   caller. *)
C28_CreateFailurePropagates ==
    \A c \in Callers :
        /\ pres[c].exc = "ClientError" =>
              /\ ppc[c] = "raised"
              /\ ncalls[c] = [list |-> 1, get |-> 0, create |-> 1]
              /\ ~plocal[c].refound
              /\ plocal[c].poll_id = NONE
        /\ (ppc[c] = "refind" \/ plocal[c].refound \/ pres[c].exc = "RuntimeError") =>
              \/ unlisted
              \/ \E i \in 1..Len(resources) : resources[i].name = plocal[c].target_name
        /\ pres[c].exc = "TimeoutError" =>
              /\ ppc[c] = "raised" /\ pres[c].kind = "raised"
              /\ ncalls[c].create = 1 => plocal[c].timeout_sec = 90
              /\ ncalls[c].create <= 1 /\ ncalls[c].list <= 2

C28_Witness ==
    \E c \in Callers, d \in Callers :
        /\ pres[c].exc = "ClientError" /\ ncalls[c].create = 1
        /\ pres[d].exc = "TimeoutError" /\ ncalls[d].create = 1 /\ ~plocal[d].refound

\* the listed resources that were not created by a call for the name t and
\* match t by name or by id prefix
ListedMatches(t) ==
    { i \in 1..Len(resources) :
        /\ resources[i].id # CreatedId(t)
        /\ resources[i].name = t \/ StartsWith(resources[i].id, t) }

(* C30: ctrl_list_memories follows the continuation token until a page has
   none and returns the memories of every page in page order, reading no
   page after the one without a token; discovery therefore finds a matching
   resource on whichever page it is, and decides 'not found' only when no
   page holds a match. *)
C30_ListingFollowsPages ==
    /\ ctrl_list_memories(resources) = resources
    /\ PagesRead(resources, 0) =
          (IF Len(resources) = 0 THEN 1 ELSE (Len(resources) + PageSize - 1) \div PageSize)
    /\ \A c \in Callers :
          LET t == plocal[c].target_name
          IN  (/\ override_id = NONE /\ ppc[c] \notin {"idle", "find"}
               /\ ListedMatches(t) # {})
              => /\ ppc[c] \in {"poll", "returned", "raised"}
                 /\ ncalls[c].create = 0
                 /\ plocal[c].poll_id =
                       resources[CHOOSE i \in ListedMatches(t) :
                                    \A j \in ListedMatches(t) : i <= j].id

C30_Witness ==
    \E c \in Callers :
        /\ override_id = NONE
        /\ Len(resources) = 2
        /\ ListedMatches(plocal[c].target_name) = {2}
        /\ PagesRead(resources, 0) = 2
        /\ pres[c].kind = "returned" /\ pres[c].id = resources[2].id

-----------------------------------------------------------------------------
(* What the system leaves alone *)

\* no resource is removed or renamed, and only the backend's own progress
\* changes a status
ResourcesKept ==
    /\ Len(resources') >= Len(resources)
    /\ \A i \in 1..Len(resources) :
          /\ resources'[i].id = resources[i].id
          /\ resources'[i].name = resources[i].name
          /\ resources'[i].status # resources[i].status =>
                (resources[i].status = "CREATING" /\ ncalls' = ncalls)

\* a step of invoke or of memories_search
ServingStep == calls' # calls \/ search' # search \/ pc' # pc

StoreCallsUseStartupId ==
    /\ \A i \in 1..Len(calls) :
          calls[i].op \in {"retrieve_memories", "create_event"} =>
              /\ calls[i].mem = app_memory_id
              /\ calls[i].mem = pres[1].id
    /\ \A q \in SearchReqs : \A i \in 1..Len(search[q].calls) :
          /\ search[q].calls[i].op = "retrieve_memories"
          /\ search[q].calls[i].memory_id = app_memory_id
          /\ search[q].calls[i].memory_id = pres[1].id

(* C29: the system never mutates or deletes the memory resource and never
   edits or deletes events: one ensure_memory call issues at most one create
   call and removes or renames no resource; invoke and memories_search issue
   no resource list, create or get call and use the memory id resolved at
   startup for every store call; memories_search makes no create_event and
   leaves the written events as they are; events once written stay. *)
C29_ResourceAndEventsKept ==
    /\ [](\A c \in Callers : ncalls[c].create <= 1)
    /\ []StoreCallsUseStartupId
    /\ [][ResourcesKept]_vars
    /\ [][ServingStep => (resources' = resources /\ ncalls' = ncalls)]_vars
    /\ [][search' # search => calls' = calls]_vars
    /\ [][Len(calls') >= Len(calls) /\ SubSeq(calls', 1, Len(calls)) = calls]_vars

C29_Witness ==
    /\ pc[1] = "done" /\ search[1].resp.status = 200
    /\ ncalls[1].create = 1
    /\ app_memory_id = CreatedId(BEDROCK_MEMORY_NAME)
    /\ Len(EntriesOf(1, "create_event")) = 2
    /\ Len(search[1].calls) = 1

====
